---- MODULE Spec2Model ----
(***************************************************************************)
(* A model of the aiengdict word-lookup service: the word-record store     *)
(* (src/src/database.py, src/src/models.py), the user store and the route  *)
(* layer of src/main.py.                                                   *)
(*                                                                         *)
(* Text is a sequence of Unicode code points, so that str.strip(),         *)
(* str.startswith(), slicing and the CJK regular expression are computed   *)
(* as Python computes them.  NULL is SQL NULL / Python None; primary keys  *)
(* start at 1 and the clock starts at 1, so 0 is never a key or a time.    *)
(***************************************************************************)
EXTENDS Integers, Sequences, FiniteSets, TLC

VARIABLES
    records,   \* table word_records, committed rows in rowid order
    users,     \* table users, committed rows in rowid order
    session,   \* the client's Flask-Login session: a user id, or NULL
    now,       \* the wall clock read by datetime.now(timezone.utc)
    ret,       \* what the last operation returned: [op, val]
    calls,     \* the save_word_record calls made by the last route handler
    saved,     \* history: per triple, the number of successful saves and the
               \* definition passed to the most recent one
    pc,        \* per worker: where its store call stands
    local,     \* per worker: what its pending store call holds
    db_session \* db.session of an application context shared by several
               \* store calls: the last_login changes not yet committed, and
               \* whether the session awaits a rollback

vars == <<records, users, session, now, ret, calls, saved, pc, local, db_session>>

NULL == 0
\* None where a text may stand (display_name): no sequence of code points
NoText == <<-1>>

-----------------------------------------------------------------------------
(* Bounds of the model                                                     *)

MaxSaves == 3        \* successful saves in a run of the store
MaxQueryTimes == 5   \* query_times of a row in a run of the ranking
MaxLimit == 2        \* explicit limit arguments tried: 0..MaxLimit
MaxLookups == 2      \* successful saves in a run of the routes
MaxTime == 2         \* the clock of a run of the authentication: 1..MaxTime
MaxTextLen == 3      \* the longest text given to detect_language

-----------------------------------------------------------------------------
(* Text                                                                    *)

Min(a, b) == IF a <= b THEN a ELSE b

\* str.startswith(prefix)
StartsWith(s, prefix) ==
    /\ Len(prefix) <= Len(s)
    /\ \A i \in 1..Len(prefix) : s[i] = prefix[i]

\* the code points for which str.isspace() holds, below U+3001
Whitespace == {9, 10, 11, 12, 13, 28, 29, 30, 31, 32, 133, 160, 5760,
               8192, 8193, 8194, 8195, 8196, 8197, 8198, 8199, 8200, 8201,
               8202, 8232, 8233, 8239, 8287, 12288}

IsSpace(c) == c \in Whitespace

\* the text as it was sent, nothing dropped
StripNothing(s) == s

\* str.strip(): drop leading and trailing whitespace
Strip(s) ==
    LET keep == {i \in 1..Len(s) : ~IsSpace(s[i])}
    IN  IF keep = {} THEN <<>>
        ELSE LET lo == CHOOSE i \in keep : \A j \in keep : i <= j
                 hi == CHOOSE i \in keep : \A j \in keep : j <= i
             IN  SubSeq(s, lo, hi)

\* "查詢時發生錯誤", the prefix main.py tests with startswith
ErrorMarker == <<26597, 35426, 26178, 30332, 29983, 37679, 35492>>

\* the three characters "..." appended to a truncated definition
Ellipsis == <<46, 46, 46>>

TruncateAt == 200
DefaultLimit == 20

-----------------------------------------------------------------------------
(* Table word_records                                                      *)

\* mutant: the user_id filter left out of the query
SqlFilterAny(col, val) == TRUE

\* filter_by(col=val): val None compiles to "col IS NULL", otherwise "col = val"
SqlFilterEq(col, val) ==
    IF val = NULL THEN col = NULL ELSE col # NULL /\ col = val

\* mutant: user_id compared with SQL "=", which no NULL satisfies
MatchingRecordsSqlEquals(rows, word, language, user_id) ==
    {i \in 1..Len(rows) :
        /\ rows[i].word = word
        /\ rows[i].language = language
        /\ rows[i].user_id # NULL
        /\ user_id # NULL
        /\ rows[i].user_id = user_id}

\* mutant: a user's lookup also finds the anonymous row of the word
MatchingRecordsOrAnonymous(rows, word, language, user_id) ==
    {i \in 1..Len(rows) :
        /\ rows[i].word = word
        /\ rows[i].language = language
        /\ (rows[i].user_id = NULL \/ SqlFilterEq(rows[i].user_id, user_id))}

\* the rows matching filter_by(word=, language=, user_id=), as indices
MatchingRecords(rows, word, language, user_id) ==
    {i \in 1..Len(rows) :
        /\ rows[i].word = word
        /\ rows[i].language = language
        /\ SqlFilterEq(rows[i].user_id, user_id)}

\* UniqueConstraint("word", "language", "user_id"): SQL compares the columns
\* with =, and NULL = NULL is not true, so rows with a NULL user_id never
\* conflict with each other.
UniqueWordLanguageUserOk(rows, row) ==
    \A i \in 1..Len(rows) :
        ~ /\ rows[i].word = row.word
          /\ rows[i].language = row.language
          /\ rows[i].user_id # NULL
          /\ row.user_id # NULL
          /\ rows[i].user_id = row.user_id

\* INTEGER PRIMARY KEY: one more than the largest rowid in the table
NextId(rows) ==
    IF Len(rows) = 0 THEN 1
    ELSE 1 + (CHOOSE m \in {rows[i].id : i \in 1..Len(rows)} :
                 \A i \in 1..Len(rows) : rows[i].id <= m)

\* mutant: an existing row keeps its old definition
find_or_create_KeepDefinition(rows, word, language, definition, user_id, t) ==
    LET hits == MatchingRecords(rows, word, language, user_id)
    IN  IF hits # {}
        THEN LET i == CHOOSE h \in hits : \A j \in hits : h <= j
             IN  [found |-> TRUE, index |-> i,
                  row |-> [rows[i] EXCEPT !.query_times = @ + 1,
                                          !.updated_on = t]]
        ELSE [found |-> FALSE, index |-> 0,
              row |-> [id |-> NULL, word |-> word, language |-> language,
                       definition |-> definition, query_times |-> 1,
                       user_id |-> user_id, created_on |-> t,
                       updated_on |-> t]]

\* WordRecord.find_or_create: the session's pending change.  [found, index,
\* row]: the first matching row with the new definition, the counter
\* incremented and updated_on refreshed, or a new row with query_times = 1.
find_or_create(rows, word, language, definition, user_id, t) ==
    LET hits == MatchingRecords(rows, word, language, user_id)
    IN  IF hits # {}
        THEN LET i == CHOOSE h \in hits : \A j \in hits : h <= j
             IN  [found |-> TRUE, index |-> i,
                  row |-> [rows[i] EXCEPT !.definition = definition,
                                          !.query_times = @ + 1,
                                          !.updated_on = t]]
        ELSE [found |-> FALSE, index |-> 0,
              row |-> [id |-> NULL, word |-> word, language |-> language,
                       definition |-> definition, query_times |-> 1,
                       user_id |-> user_id, created_on |-> t,
                       updated_on |-> t]]

\* mutant: a failed commit leaves the update it had staged
save_word_record_commit_NoRollback(rows, pending, loaded, fail) ==
    IF pending.found
    THEN [rows |-> [rows EXCEPT ![pending.index] = pending.row],
          ok |-> ~fail]
    ELSE IF ~fail /\ UniqueWordLanguageUserOk(rows, pending.row)
    THEN [rows |-> Append(rows, [pending.row EXCEPT !.id = NextId(rows)]),
          ok |-> TRUE]
    ELSE [rows |-> rows, ok |-> FALSE]

\* db.session.add(record); db.session.commit(), and the except clause.
\* pending is what find_or_create staged and loaded the row as it was read.
\* The flush writes an UPDATE of the columns whose value was changed, by
\* primary key, or the INSERT.  An INSERT that breaks the uniqueness
\* constraint, or a storage failure (fail), raises: the handler rolls back
\* and returns False.  [rows, ok].
save_word_record_commit(rows, pending, loaded, fail) ==
    IF fail THEN [rows |-> rows, ok |-> FALSE]
    ELSE IF pending.found
    THEN [rows |->
              [rows EXCEPT ![pending.index] =
                  [@ EXCEPT !.definition =
                                IF pending.row.definition # loaded.definition
                                THEN pending.row.definition ELSE @,
                            !.query_times = pending.row.query_times,
                            !.updated_on =
                                IF pending.row.updated_on # loaded.updated_on
                                THEN pending.row.updated_on ELSE @]],
          ok |-> TRUE]
    ELSE IF UniqueWordLanguageUserOk(rows, pending.row)
    THEN [rows |-> Append(rows, [pending.row EXCEPT !.id = NextId(rows)]),
          ok |-> TRUE]
    ELSE [rows |-> rows, ok |-> FALSE]

\* save_word_record, run to completion: find_or_create, add, commit.
\* [rows, ok].
save_word_record(rows, word, language, definition, user_id, t, fail) ==
    LET pending == find_or_create(rows, word, language, definition, user_id, t)
        loaded == IF pending.found THEN rows[pending.index] ELSE pending.row
    IN  save_word_record_commit(rows, pending, loaded, fail)

\* strftime("%Y-%m-%d %H:%M"): the timestamp (in seconds) to the minute
FormatMinute(t) == t \div 60

\* mutant: a definition of exactly 200 characters is marked too
TruncatedDefinition_From200(d) ==
    IF Len(d) >= TruncateAt THEN SubSeq(d, 1, TruncateAt) \o Ellipsis ELSE d

\* record.definition[:200] + "..." if len(record.definition) > 200
TruncatedDefinition(d) ==
    IF Len(d) > TruncateAt THEN SubSeq(d, 1, TruncateAt) \o Ellipsis ELSE d

HistoryEntry(row) ==
    [word |-> row.word, language |-> row.language,
     query_times |-> row.query_times,
     definition |-> TruncatedDefinition(row.definition),
     updated_on |-> FormatMinute(row.updated_on)]

\* mutant: no filter at all for the anonymous caller
RecordsOfUserAnonymousSeesAll(rows, user_id) ==
    IF user_id # NULL
    THEN {i \in 1..Len(rows) : rows[i].user_id = user_id}
    ELSE 1..Len(rows)

\* query.filter_by(user_id=user_id), as indices
RecordsOfUser(rows, user_id) ==
    {i \in 1..Len(rows) : SqlFilterEq(rows[i].user_id, user_id)}

\* mutant: order_by(query_times) without desc()
RECURSIVE RankedOrdersAscending(_, _)
RankedOrdersAscending(rows, I) ==
    IF I = {} THEN {<<>>}
    ELSE UNION {{<<i>> \o rest : rest \in RankedOrdersAscending(rows, I \ {i})} :
                i \in {m \in I : \A j \in I :
                           rows[m].query_times <= rows[j].query_times}}

\* order_by(query_times.desc()): every order of the indices I with
\* query_times non-increasing; SQL leaves the order of ties open.
RECURSIVE RankedOrders(_, _)
RankedOrders(rows, I) ==
    IF I = {} THEN {<<>>}
    ELSE UNION {{<<i>> \o rest : rest \in RankedOrders(rows, I \ {i})} :
                i \in {m \in I : \A j \in I :
                           rows[m].query_times >= rows[j].query_times}}

\* mutant: the limit applied to the rows in storage order, before ranking
RankedSelectionsLimitFirst(rows, limit, user_id) ==
    LET I == RecordsOfUser(rows, user_id)
        n == Min(limit, Cardinality(I))
        first == {i \in I : Cardinality({j \in I : j < i}) < n}
    IN  RankedOrders(rows, first)

\* the index lists .order_by(...).limit(limit).all() may return
RankedSelections(rows, limit, user_id) ==
    LET I == RecordsOfUser(rows, user_id)
        n == Min(limit, Cardinality(I))
    IN  {[k \in 1..n |-> f[k]] : f \in RankedOrders(rows, I)}

\* get_query_history: the lists it may return; the empty list when the
\* query raises (fail)
get_query_history(rows, limit, user_id, fail) ==
    IF fail THEN {<<>>}
    ELSE {[k \in 1..Len(sel) |-> HistoryEntry(rows[sel[k]])] :
              sel \in RankedSelections(rows, limit, user_id)}

-----------------------------------------------------------------------------
(* Table users                                                             *)

\* "用戶名已存在"
MsgUsernameExists == <<29992, 25142, 21517, 24050, 23384, 22312>>
\* "電子郵件已被註冊"
MsgEmailRegistered ==
    <<38651, 23376, 37109, 20214, 24050, 34987, 35387, 20874>>
\* "註冊成功"
MsgRegistered == <<35387, 20874, 25104, 21151>>
\* "註冊失敗，請稍後再試"
MsgRegisterFailed ==
    <<35387, 20874, 22833, 25943, 65292, 35531, 31245, 24460, 20877, 35430>>
\* "用戶不存在"
MsgNoSuchUser == <<29992, 25142, 19981, 23384, 22312>>
\* "密碼錯誤"
MsgWrongPassword == <<23494, 30908, 37679, 35492>>
\* "帳戶已被停用"
MsgDisabled == <<24115, 25142, 24050, 34987, 20572, 29992>>
\* "登入成功"
MsgLoggedIn == <<30331, 20837, 25104, 21151>>
\* "登入失敗，請稍後再試"
MsgLoginFailed ==
    <<30331, 20837, 22833, 25943, 65292, 35531, 31245, 24460, 20877, 35430>>

\* the points of a store call at which the storage may raise
Faults == {"none", "query", "commit"}

\* cls.query.filter_by(username=username).first(): a row index, or 0
find_by_username(rows, username) ==
    LET hits == {i \in 1..Len(rows) : rows[i].username = username}
    IN  IF hits = {} THEN 0 ELSE CHOOSE h \in hits : \A j \in hits : h <= j

\* cls.query.filter_by(email=email).first(): a row index, or 0
find_by_email(rows, email) ==
    LET hits == {i \in 1..Len(rows) : rows[i].email = email}
    IN  IF hits = {} THEN 0 ELSE CHOOSE h \in hits : \A j \in hits : h <= j

\* mutant: only the username column is declared unique
UniqueUsernameOnly(rows, row) ==
    \A i \in 1..Len(rows) : rows[i].username # row.username

\* unique=True on users.username and on users.email
UniqueUsernameEmailOk(rows, row) ==
    \A i \in 1..Len(rows) :
        /\ rows[i].username # row.username
        /\ rows[i].email # row.email

\* werkzeug's generate_password_hash: a value from which only
\* check_password_hash with the same password succeeds
generate_password_hash(password) == <<"hash", password>>

\* User.check_password
check_password(row, password) ==
    row.password_hash = generate_password_hash(password)

\* User(username=, email=, display_name=) and set_password, with the
\* column defaults is_active = True, created_on = now, last_login = NULL
NewUser(username, email, password, display_name, t) ==
    [id |-> NULL, username |-> username, email |-> email,
     password_hash |-> generate_password_hash(password),
     display_name |-> display_name, is_active |-> TRUE,
     created_on |-> t, last_login |-> NULL]

\* mutant: the email is looked up before the username
create_user_check_EmailFirst(rows, username, email) ==
    IF find_by_email(rows, email) # 0 THEN "email"
    ELSE IF find_by_username(rows, username) # 0 THEN "username"
    ELSE "free"

\* the two existence checks of create_user, the username first
create_user_check(rows, username, email) ==
    IF find_by_username(rows, username) # 0 THEN "username"
    ELSE IF find_by_email(rows, email) # 0 THEN "email"
    ELSE "free"

\* mutant: a failed commit leaves the row it was to insert
create_user_commit_NoRollback(rows, username, email, password, display_name, t, fault) ==
    LET user == NewUser(username, email, password, display_name, t)
    IN  IF UniqueUsernameEmailOk(rows, user)
        THEN [rows |-> Append(rows, [user EXCEPT !.id = NextId(rows)]),
              val |-> IF fault = "none"
                      THEN [ok |-> TRUE, message |-> MsgRegistered]
                      ELSE [ok |-> FALSE, message |-> MsgRegisterFailed]]
        ELSE [rows |-> rows,
              val |-> [ok |-> FALSE, message |-> MsgRegisterFailed]]

\* db.session.add(user); db.session.commit(): the INSERT is refused when it
\* breaks a uniqueness constraint; that, or a storage failure, raises, and
\* the handler rolls back and reports the generic failure.  [rows, val].
create_user_commit(rows, username, email, password, display_name, t, fault) ==
    LET user == NewUser(username, email, password, display_name, t)
    IN  IF fault = "none" /\ UniqueUsernameEmailOk(rows, user)
        THEN [rows |-> Append(rows, [user EXCEPT !.id = NextId(rows)]),
              val |-> [ok |-> TRUE, message |-> MsgRegistered]]
        ELSE [rows |-> rows,
              val |-> [ok |-> FALSE, message |-> MsgRegisterFailed]]

\* create_user, run to completion.  [rows, val].
create_user(rows, username, email, password, display_name, t, fault) ==
    IF fault = "query"
    THEN [rows |-> rows, val |-> [ok |-> FALSE, message |-> MsgRegisterFailed]]
    ELSE LET found == create_user_check(rows, username, email)
         IN  IF found = "username"
             THEN [rows |-> rows,
                   val |-> [ok |-> FALSE, message |-> MsgUsernameExists]]
             ELSE IF found = "email"
             THEN [rows |-> rows,
                   val |-> [ok |-> FALSE, message |-> MsgEmailRegistered]]
             ELSE create_user_commit(rows, username, email, password,
                                     display_name, t, fault)

\* mutant: the email is tried before the username
find_identity_EmailFirst(rows, identifier) ==
    IF find_by_email(rows, identifier) # 0
    THEN find_by_email(rows, identifier)
    ELSE find_by_username(rows, identifier)

\* user = User.find_by_username(username); if not user: user =
\* User.find_by_email(username).  A row index, or 0.
find_identity(rows, identifier) ==
    IF find_by_username(rows, identifier) # 0
    THEN find_by_username(rows, identifier)
    ELSE find_by_email(rows, identifier)

\* mutant: the active flag is tested before the password
authenticate_user_ActiveFirst(rows, username, password, t, fault) ==
    LET i == find_identity(rows, username)
    IN  IF fault = "query"
        THEN [rows |-> rows, user |-> NULL, message |-> MsgLoginFailed]
        ELSE IF i = 0
        THEN [rows |-> rows, user |-> NULL, message |-> MsgNoSuchUser]
        ELSE IF ~rows[i].is_active
        THEN [rows |-> rows, user |-> NULL, message |-> MsgDisabled]
        ELSE IF ~check_password(rows[i], password)
        THEN [rows |-> rows, user |-> NULL, message |-> MsgWrongPassword]
        ELSE IF fault = "commit"
        THEN [rows |-> rows, user |-> NULL, message |-> MsgLoginFailed]
        ELSE [rows |-> [rows EXCEPT ![i].last_login = t],
              user |-> rows[i].id, message |-> MsgLoggedIn]

\* mutant: the active flag is not tested
authenticate_user_NoActiveCheck(rows, username, password, t, fault) ==
    LET i == find_identity(rows, username)
    IN  IF fault = "query"
        THEN [rows |-> rows, user |-> NULL, message |-> MsgLoginFailed]
        ELSE IF i = 0
        THEN [rows |-> rows, user |-> NULL, message |-> MsgNoSuchUser]
        ELSE IF ~check_password(rows[i], password)
        THEN [rows |-> rows, user |-> NULL, message |-> MsgWrongPassword]
        ELSE IF fault = "commit"
        THEN [rows |-> rows, user |-> NULL, message |-> MsgLoginFailed]
        ELSE [rows |-> [rows EXCEPT ![i].last_login = t],
              user |-> rows[i].id, message |-> MsgLoggedIn]

\* mutant: last_login is set as soon as the user is found
authenticate_user_TouchesEarly(rows, username, password, t, fault) ==
    LET i == find_identity(rows, username)
        touched == [rows EXCEPT ![i].last_login = t]
    IN  IF fault = "query"
        THEN [rows |-> rows, user |-> NULL, message |-> MsgLoginFailed]
        ELSE IF i = 0
        THEN [rows |-> rows, user |-> NULL, message |-> MsgNoSuchUser]
        ELSE IF ~check_password(rows[i], password)
        THEN [rows |-> touched, user |-> NULL, message |-> MsgWrongPassword]
        ELSE IF ~rows[i].is_active
        THEN [rows |-> touched, user |-> NULL, message |-> MsgDisabled]
        ELSE IF fault = "commit"
        THEN [rows |-> rows, user |-> NULL, message |-> MsgLoginFailed]
        ELSE [rows |-> touched, user |-> rows[i].id, message |-> MsgLoggedIn]

\* authenticate_user.  [rows, user, message]: the committed table, the id
\* of the user returned or NULL, and the message.  The lookup tries the
\* username, then the email; the checks are existence, password,
\* is_active; then last_login is set and committed.  A storage failure
\* yields the generic failure and commits nothing.
authenticate_user(rows, username, password, t, fault) ==
    LET i == find_identity(rows, username)
    IN  IF fault = "query"
        THEN [rows |-> rows, user |-> NULL, message |-> MsgLoginFailed]
        ELSE IF i = 0
        THEN [rows |-> rows, user |-> NULL, message |-> MsgNoSuchUser]
        ELSE IF ~check_password(rows[i], password)
        THEN [rows |-> rows, user |-> NULL, message |-> MsgWrongPassword]
        ELSE IF ~rows[i].is_active
        THEN [rows |-> rows, user |-> NULL, message |-> MsgDisabled]
        ELSE IF fault = "commit"
        THEN [rows |-> rows, user |-> NULL, message |-> MsgLoginFailed]
        ELSE [rows |-> [rows EXCEPT ![i].last_login = t],
              user |-> rows[i].id, message |-> MsgLoggedIn]

\* db.session with nothing staged.  pending maps a user id to the
\* last_login assigned to that row and not yet committed; inactive says that a
\* flush has raised, so that the session refuses every statement until
\* rollback() is called.
CleanSession == [pending |-> <<>>, inactive |-> FALSE]

\* what a failed commit may leave of the session when nobody calls
\* rollback(): the change still staged (the COMMIT itself raised), or the
\* transaction rolled back by the failed flush and the session inactive
CommitFailures == {"staged", "inactive"}

\* db.session.commit() succeeding: the staged changes reach the table
session_flush(rows, pending) ==
    [i \in 1..Len(rows) |->
        IF rows[i].id \in DOMAIN pending
        THEN [rows[i] EXCEPT !.last_login = pending[rows[i].id]]
        ELSE rows[i]]

\* authenticate_user in a session that earlier calls have used.  [rows,
\* sess, user, message].  An inactive session raises at the first query.
\* The except clause does not call rollback(): when the commit raises, the
\* session is left as the failure left it (left).
authenticate_user_in_session(rows, sess, username, password, t, fault, left) ==
    LET r == authenticate_user(rows, username, password, t, fault)
        passed == authenticate_user(rows, username, password, t, "none").user
    IN  IF sess.inactive
        THEN [rows |-> rows, sess |-> sess, user |-> NULL,
              message |-> MsgLoginFailed]
        ELSE IF fault = "commit" /\ passed # NULL
        THEN [rows |-> rows,
              sess |-> IF left = "staged"
                       THEN [pending |-> (passed :> t) @@ sess.pending,
                             inactive |-> FALSE]
                       ELSE [pending |-> <<>>, inactive |-> TRUE],
              user |-> NULL, message |-> MsgLoginFailed]
        ELSE IF r.user # NULL
        THEN [rows |-> session_flush(rows, (r.user :> t) @@ sess.pending),
              sess |-> CleanSession, user |-> r.user, message |-> r.message]
        ELSE [rows |-> rows, sess |-> sess, user |-> NULL,
              message |-> r.message]

\* create_user in a session that earlier calls have used.  [rows, sess,
\* val].  Its commit writes what the session had staged; its except clause
\* rolls back; a duplicate found returns with the session as it is.
create_user_in_session(rows, sess, username, email, password, t, fault) ==
    LET r == create_user(rows, username, email, password, NoText, t, fault)
    IN  IF sess.inactive
        THEN [rows |-> rows, sess |-> CleanSession,
              val |-> [ok |-> FALSE, message |-> MsgRegisterFailed]]
        ELSE IF r.val.ok
        THEN [rows |-> session_flush(r.rows, sess.pending),
              sess |-> CleanSession, val |-> r.val]
        ELSE IF r.val.message = MsgRegisterFailed
        THEN [rows |-> rows, sess |-> CleanSession, val |-> r.val]
        ELSE [rows |-> rows, sess |-> sess, val |-> r.val]

\* save_word_record in a session that earlier calls have used.  [rows,
\* urows, sess, ok]: its commit writes what the session had staged, its
\* except clause rolls back.
save_word_record_in_session(rows, urows, sess, word, language, definition, user_id, t, fail) ==
    LET r == save_word_record(rows, word, language, definition, user_id, t,
                              fail)
    IN  IF ~sess.inactive /\ r.ok
        THEN [rows |-> r.rows, urows |-> session_flush(urows, sess.pending),
              sess |-> CleanSession, ok |-> TRUE]
        ELSE [rows |-> rows, urows |-> urows, sess |-> CleanSession,
              ok |-> FALSE]

-----------------------------------------------------------------------------
(* The routes of main.py                                                   *)

\* "請輸入要查詢的單詞"
MsgEnterWord ==
    <<35531, 36664, 20837, 35201, 26597, 35426, 30340, 21934, 35422>>
\* "請填寫所有必填欄位"
MsgFillAll == <<35531, 22635, 23531, 25152, 26377, 24517, 22635, 27396, 20301>>
\* "密碼長度至少6個字符"
MsgPasswordShort ==
    <<23494, 30908, 38263, 24230, 33267, 23569, 54, 20491, 23383, 31526>>
\* "請輸入用戶名和密碼"
MsgEnterCredentials ==
    <<35531, 36664, 20837, 29992, 25142, 21517, 21644, 23494, 30908>>
\* "登出成功"
MsgLoggedOut == <<30331, 20986, 25104, 21151>>

MinPasswordLen == 6
CjkFirst == 19968    \* U+4E00
CjkLast == 40959     \* U+9FFF

\* mutant: re.match, which looks at the start of the text only
detect_language_MatchAtStart(text) ==
    IF Len(text) >= 1 /\ CjkFirst <= text[1] /\ text[1] <= CjkLast
    THEN "chinese" ELSE "english"

\* detect_language: re.search of [\u4e00-\u9fff]
detect_language(text) ==
    IF \E i \in 1..Len(text) : CjkFirst <= text[i] /\ text[i] <= CjkLast
    THEN "chinese" ELSE "english"

PROMPT_STYLE == "detailed"

\* mutant: an unknown style falls back to the language's standard template
get_prompt_StandardOfLanguage(language, style) ==
    IF language = "chinese" /\ style = "detailed"
    THEN "CHINESE_PROMPT_DETAILED"
    ELSE IF language = "english" /\ style = "detailed"
    THEN "ENGLISH_PROMPT_DETAILED"
    ELSE IF language = "english" THEN "ENGLISH_PROMPT"
    ELSE "CHINESE_PROMPT"

\* get_prompt: prompts.get(language, {}).get(style, CHINESE_PROMPT)
get_prompt(language, style) ==
    IF language = "chinese" /\ style = "standard" THEN "CHINESE_PROMPT"
    ELSE IF language = "chinese" /\ style = "detailed"
    THEN "CHINESE_PROMPT_DETAILED"
    ELSE IF language = "english" /\ style = "standard" THEN "ENGLISH_PROMPT"
    ELSE IF language = "english" /\ style = "detailed"
    THEN "ENGLISH_PROMPT_DETAILED"
    ELSE "CHINESE_PROMPT"

\* prompt_template.format(word=word)
FormatPrompt(template, word) == [template |-> template, word |-> word]

\* mutant: the exception's description is returned without the marker
get_word_definition_NoMarker(word, language, outcome) == outcome.text

\* get_word_definition: the provider's text, or, when anything in the try
\* block raises, "查詢時發生錯誤: " and the exception's description.
\* outcome = [raised, text] is what model.generate_content does.
get_word_definition(word, language, outcome) ==
    IF outcome.raised THEN ErrorMarker \o <<58, 32>> \o outcome.text
    ELSE outcome.text

\* load_user and current_user.is_authenticated: the id of the session's
\* user when that row exists and is active, else NULL (anonymous)
\* mutant: every request is handled as an anonymous one
CurrentUserIdAnonymous(rows, sid) == NULL

CurrentUserId(rows, sid) ==
    IF \E i \in 1..Len(rows) : rows[i].id = sid /\ rows[i].is_active
    THEN sid ELSE NULL

\* mutant: every definition is saved
ShouldPersistAlways(definition) == TRUE

\* mutant: only the bare marker is kept out of the store
ShouldPersistUnlessEqualsMarker(definition) == definition # ErrorMarker

\* not definition.startswith("查詢時發生錯誤")
ShouldPersist(definition) == ~StartsWith(definition, ErrorMarker)

\* lookup_word.  [rows, ok, status, body, calls]: the table afterwards,
\* whether a save succeeded, the response, and the calls the handler made
\* to the provider and to save_word_record, in order.
\* data.get(key, ""): the field of the posted body, "" when it is absent
RequestField(data, key) == IF key \in DOMAIN data THEN data[key] ELSE <<>>

lookup_word(rows, urows, sid, raw, outcome, t, fail) ==
    LET word == Strip(raw)
        language == detect_language(word)
        prompt == FormatPrompt(get_prompt(language, PROMPT_STYLE), word)
        definition == get_word_definition(word, language, outcome)
        user_id == CurrentUserId(urows, sid)
        r == save_word_record(rows, word, language, definition, user_id, t,
                              fail)
    IN  IF word = <<>>
        THEN [rows |-> rows, ok |-> FALSE, status |-> 400,
              body |-> [error |-> MsgEnterWord], calls |-> <<>>]
        ELSE [rows |-> IF ShouldPersist(definition) THEN r.rows ELSE rows,
              ok |-> ShouldPersist(definition) /\ r.ok,
              status |-> 200,
              body |-> [word |-> word, language |-> language,
                        definition |-> definition],
              calls |->
                  <<[fn |-> "generate_content", args |-> <<prompt>>]>> \o
                  (IF ShouldPersist(definition)
                   THEN <<[fn |-> "save_word_record",
                           args |-> <<word, language, definition, user_id>>]>>
                   ELSE <<>>)]

\* display_name = data.get("display_name", "").strip() or None
DisplayNameOrNone(raw) == IF Strip(raw) = <<>> THEN NoText ELSE Strip(raw)

\* register with the length of the password checked first
register_LengthFirst(rows, rawUsername, rawEmail, rawPassword, rawDisplayName, t, fault) ==
    LET username == Strip(rawUsername)
        email == Strip(rawEmail)
        password == Strip(rawPassword)
        display_name == DisplayNameOrNone(rawDisplayName)
        r == create_user(rows, username, email, password, display_name, t,
                         fault)
    IN  IF Len(password) < MinPasswordLen
        THEN [rows |-> rows, status |-> 400,
              body |-> [error |-> MsgPasswordShort], calls |-> <<>>]
        ELSE IF username = <<>> \/ email = <<>> \/ password = <<>>
        THEN [rows |-> rows, status |-> 400,
              body |-> [error |-> MsgFillAll], calls |-> <<>>]
        ELSE [rows |-> r.rows,
              status |-> IF r.val.ok THEN 200 ELSE 400,
              body |-> IF r.val.ok THEN [message |-> r.val.message]
                       ELSE [error |-> r.val.message],
              calls |-> <<[fn |-> "create_user",
                           args |-> <<username, email, password,
                                      display_name>>]>>]

\* register (POST).  [rows, status, body, calls].
register(rows, rawUsername, rawEmail, rawPassword, rawDisplayName, t, fault) ==
    LET username == Strip(rawUsername)
        email == Strip(rawEmail)
        password == Strip(rawPassword)
        display_name == DisplayNameOrNone(rawDisplayName)
        r == create_user(rows, username, email, password, display_name, t,
                         fault)
    IN  IF username = <<>> \/ email = <<>> \/ password = <<>>
        THEN [rows |-> rows, status |-> 400,
              body |-> [error |-> MsgFillAll], calls |-> <<>>]
        ELSE IF Len(password) < MinPasswordLen
        THEN [rows |-> rows, status |-> 400,
              body |-> [error |-> MsgPasswordShort], calls |-> <<>>]
        ELSE [rows |-> r.rows,
              status |-> IF r.val.ok THEN 200 ELSE 400,
              body |-> IF r.val.ok THEN [message |-> r.val.message]
                       ELSE [error |-> r.val.message],
              calls |-> <<[fn |-> "create_user",
                           args |-> <<username, email, password,
                                      display_name>>]>>]

\* User.get_display_name
get_display_name(row) ==
    IF row.display_name # NoText THEN row.display_name ELSE row.username

\* login (POST).  [rows, sid, status, body, calls]: sid is the session
\* afterwards; login_user binds it to the user authenticate_user returned.
login(rows, sid, rawUsername, rawPassword, t, fault) ==
    LET username == Strip(rawUsername)
        password == Strip(rawPassword)
        r == authenticate_user(rows, username, password, t, fault)
        i == CHOOSE k \in 1..Len(r.rows) : r.rows[k].id = r.user
    IN  IF username = <<>> \/ password = <<>>
        THEN [rows |-> rows, sid |-> sid, status |-> 400,
              body |-> [error |-> MsgEnterCredentials], calls |-> <<>>]
        ELSE IF r.user # NULL
        THEN [rows |-> r.rows, sid |-> r.user, status |-> 200,
              body |-> [message |-> r.message,
                        user |-> [username |-> r.rows[i].username,
                                  display_name |->
                                      get_display_name(r.rows[i])]],
              calls |-> <<[fn |-> "authenticate_user",
                           args |-> <<username, password>>]>>]
        ELSE [rows |-> r.rows, sid |-> sid, status |-> 401,
              body |-> [error |-> r.message],
              calls |-> <<[fn |-> "authenticate_user",
                           args |-> <<username, password>>]>>]

\* logout (POST, login_required): an anonymous caller is sent to the login
\* view; otherwise logout_user clears the session.  [sid, status, body].
logout(rows, sid) ==
    IF CurrentUserId(rows, sid) = NULL
    THEN [sid |-> sid, status |-> 302, body |-> [location |-> "login"]]
    ELSE [sid |-> NULL, status |-> 200, body |-> [message |-> MsgLoggedOut]]

-----------------------------------------------------------------------------
(* Input sets                                                              *)

Words == {<<97>>, <<20013>>}                 \* "a", "中"
Languages == {"chinese", "english"}
UserRefs == {NULL, 1, 2}
Definitions == {<<100, 49>>, <<100, 50>>}    \* "d1", "d2"
\* the (word, language) pairs saved in a run of the store
StorePairs == {<<(<<97>>), "english">>, <<(<<20013>>), "chinese">>}
\* the words saved in a run of the ranking: "a", "b", "c", "d"
RankWords == {<<97>>, <<98>>, <<99>>, <<100>>}
Limits == (0..MaxLimit) \cup {DefaultLimit}

\* "u1", "x" and "e1", "x": the text "x" may be a username and an email
Usernames == {<<117, 49>>, <<120>>}
Emails == {<<101, 49>>, <<120>>}
\* "secret", "hunter"
Passwords == {<<115, 101, 99, 114, 101, 116>>, <<104, 117, 110, 116, 101, 114>>}
DisplayNames == {NoText, <<68>>}              \* None, "D"
Workers == {1, 2}

\* request fields as the client sends them
RawU1 == <<32, 117, 49>>                          \* " u1"
RawX == <<120>>                                   \* "x"
RawE1 == <<101, 49>>                              \* "e1"
RawSecret == <<115, 101, 99, 114, 101, 116, 32>>  \* "secret "
RawShort == <<97, 98, 99>>                        \* "abc"
\* the bodies posted to /register
RegisterRequests ==
    {\* a first user, named "D"
     [username |-> RawU1, email |-> RawE1, password |-> RawSecret,
      display_name |-> <<68>>],
     \* the same email
     [username |-> RawX, email |-> RawE1, password |-> RawSecret],
     \* the same username
     [username |-> RawU1, email |-> RawX, password |-> RawSecret],
     \* an empty username
     [username |-> <<>>, email |-> RawE1, password |-> RawSecret],
     \* a blank email
     [username |-> RawU1, email |-> <<32>>, password |-> RawSecret],
     \* no password
     [username |-> RawU1, email |-> RawE1],
     \* a short password
     [username |-> RawU1, email |-> RawE1, password |-> RawShort]}
\* the bodies posted to /login: username (or email), password
LoginRequests ==
    {<<RawU1, RawSecret>>, <<RawX, RawSecret>>, <<RawE1, RawSecret>>,
     <<RawU1, RawShort>>, <<<<>>, RawSecret>>, <<RawU1, <<>>>>}
\* "", " ", " a ", "a中 "
RawWords == {<<>>, <<32>>, <<32, 97, 32>>, <<97, 20013, 32>>}
\* the bodies posted to /lookup: a word, or a body without the key "word"
LookupBodies == {[word |-> w] : w \in RawWords} \cup {[other |-> <<97>>]}
\* the provider returns "d1", or its own text "查詢時發生錯誤!", or raises
\* with the description "e"
ProviderOutcomes ==
    {[raised |-> FALSE, text |-> <<100, 49>>],
     [raised |-> FALSE, text |-> ErrorMarker \o <<33>>],
     [raised |-> TRUE, text |-> <<101>>]}

Key(word, language, user_id) == <<word, language, user_id>>
RowKey(row) == Key(row.word, row.language, row.user_id)

\* the history of successful saves, after one more of key with definition
Recorded(h, key, definition) ==
    [k \in DOMAIN h \cup {key} |->
        IF k = key
        THEN [n |-> (IF key \in DOMAIN h THEN h[key].n ELSE 0) + 1,
              definition |-> definition]
        ELSE h[k]]

TotalSaves(rows) ==
    LET Sum[i \in 0..Len(rows)] ==
            IF i = 0 THEN 0 ELSE Sum[i - 1] + rows[i].query_times
    IN  Sum[Len(rows)]

-----------------------------------------------------------------------------
(* The store called directly                                               *)

Init ==
    /\ records = <<>>
    /\ users = <<>>
    /\ session = NULL
    /\ now = 1
    /\ ret = [op |-> "none", val |-> NULL]
    /\ calls = <<>>
    /\ saved = <<>>
    /\ pc = [p \in {1, 2} |-> "idle"]
    /\ local = [p \in {1, 2} |-> <<>>]
    /\ db_session = CleanSession

SaveWordRecord(word, language, definition, user_id, fail) ==
    LET r == save_word_record(records, word, language, definition, user_id,
                              now, fail)
    IN  /\ records' = r.rows
        /\ ret' = [op |-> "save_word_record", val |-> r.ok]
        /\ saved' = IF r.ok
                    THEN Recorded(saved, Key(word, language, user_id), definition)
                    ELSE saved
        /\ UNCHANGED <<users, session, now, calls, pc, local, db_session>>

GetQueryHistory(limit, user_id, fail) ==
    /\ \E h \in get_query_history(records, limit, user_id, fail) :
           ret' = [op |-> "get_query_history", val |-> h]
    /\ UNCHANGED <<records, users, session, now, calls, saved, pc, local, db_session>>

NextStore ==
    \/ \E p \in StorePairs, d \in Definitions, u \in UserRefs,
          fail \in BOOLEAN :
           /\ TotalSaves(records) < MaxSaves
           /\ SaveWordRecord(p[1], p[2], d, u, fail)
    \/ \E limit \in Limits, u \in UserRefs, fail \in BOOLEAN :
           GetQueryHistory(limit, u, fail)

SpecStore == Init /\ [][NextStore]_vars

\* one user's records, saved often enough to be ranked
NextRank ==
    \/ \E w \in RankWords :
           /\ \A i \in MatchingRecords(records, w, "english", 1) :
                  records[i].query_times < MaxQueryTimes
           /\ SaveWordRecord(w, "english", <<100, 49>>, 1, FALSE)
    \/ \E limit \in {MaxLimit, DefaultLimit}, fail \in BOOLEAN :
           GetQueryHistory(limit, 1, fail)

SpecRank == Init /\ [][NextRank]_vars

-----------------------------------------------------------------------------
(* The user store called directly, one call at a time                      *)

CreateUser(username, email, password, display_name, fault) ==
    LET r == create_user(users, username, email, password, display_name, now,
                         fault)
    IN  /\ users' = r.rows
        /\ ret' = [op |-> "create_user", val |-> r.val,
                   args |-> <<username, email>>, fault |-> fault]
        /\ UNCHANGED <<records, session, now, calls, saved, pc, local, db_session>>

AuthenticateUser(username, password, fault) ==
    LET r == authenticate_user(users, username, password, now, fault)
    IN  /\ users' = r.rows
        /\ ret' = [op |-> "authenticate_user",
                   val |-> [user |-> r.user, message |-> r.message,
                            args |-> <<username, password>>]]
        /\ UNCHANGED <<records, session, now, calls, saved, pc, local, db_session>>

NextUsers ==
    \/ \E un \in Usernames, em \in Emails, pw \in Passwords,
          dn \in DisplayNames, fault \in Faults :
           CreateUser(un, em, pw, dn, fault)
    \/ \E id \in Usernames \cup Emails, pw \in Passwords, fault \in Faults :
           AuthenticateUser(id, pw, fault)

SpecUsers == Init /\ [][NextUsers]_vars

-----------------------------------------------------------------------------
(* create_user called by two workers at once: each call reads, then        *)
(* writes, and the other worker may run in between                         *)

\* lines 114-121: the existence checks; a duplicate found ends the call
CreateUserBegin(p, username, email, password, display_name, fault) ==
    LET found == create_user_check(users, username, email)
    IN  /\ pc[p] = "idle"
        /\ fault # "commit"
        /\ IF fault = "query"
           THEN /\ ret' = [op |-> "create_user",
                           val |-> [ok |-> FALSE,
                                    message |-> MsgRegisterFailed],
                           conflict |-> "free"]
                /\ UNCHANGED <<pc, local, db_session>>
           ELSE IF found = "username"
           THEN /\ ret' = [op |-> "create_user",
                           val |-> [ok |-> FALSE,
                                    message |-> MsgUsernameExists],
                           conflict |-> "free"]
                /\ UNCHANGED <<pc, local, db_session>>
           ELSE IF found = "email"
           THEN /\ ret' = [op |-> "create_user",
                           val |-> [ok |-> FALSE,
                                    message |-> MsgEmailRegistered],
                           conflict |-> "free"]
                /\ UNCHANGED <<pc, local, db_session>>
           ELSE /\ pc' = [pc EXCEPT ![p] = "commit"]
                /\ local' = [local EXCEPT ![p] =
                                 <<username, email, password,
                                   display_name>>]
                /\ UNCHANGED ret
        /\ UNCHANGED <<records, users, session, now, calls, saved, db_session>>

\* lines 123-134: the insert and the commit, or the rollback.  conflict
\* names the column in which another call's row, committed since this call's
\* checks, has the value this call inserts.
CreateUserCommit(p, fault) ==
    /\ pc[p] = "commit"
    /\ fault # "query"
    /\ LET a == local[p]
           r == create_user_commit(users, a[1], a[2], a[3], a[4], now, fault)
       IN  /\ users' = r.rows
           /\ ret' = [op |-> "create_user", val |-> r.val,
                      conflict |-> IF fault = "none"
                                   THEN create_user_check(users, a[1], a[2])
                                   ELSE "free"]
    /\ pc' = [pc EXCEPT ![p] = "idle"]
    /\ local' = [local EXCEPT ![p] = <<>>]
    /\ UNCHANGED <<records, session, now, calls, saved, db_session>>

NextUsersConcurrent ==
    \/ \E p \in Workers, un \in Usernames, em \in Emails,
          fault \in {"none", "query"} :
           CreateUserBegin(p, un, em, <<115, 101, 99, 114, 101, 116>>, NoText,
                           fault)
    \/ \E p \in Workers, fault \in {"none", "commit"} :
           CreateUserCommit(p, fault)

SpecUsersConcurrent == Init /\ [][NextUsersConcurrent]_vars

-----------------------------------------------------------------------------
(* save_word_record called by two workers at once, each with a session of  *)
(* its own: a call reads, then writes, and the other worker may run in     *)
(* between                                                                 *)

\* the triples saved: "a" in English, for the null user and for user 1
SaveUserRefs == {NULL, 1}

\* line 52: find_or_create reads the table and stages the change; a lookup
\* that raises ends the call with a rollback and False
SaveBegin(p, word, language, definition, user_id, fail) ==
    LET pending == find_or_create(records, word, language, definition,
                                  user_id, now)
        loaded == IF pending.found THEN records[pending.index]
                  ELSE pending.row
    IN  /\ pc[p] = "idle"
        /\ IF fail
           THEN /\ ret' = [op |-> "save_word_record", val |-> FALSE,
                           key |-> Key(word, language, user_id),
                           found |-> FALSE, conflict |-> FALSE]
                /\ UNCHANGED <<pc, local>>
           ELSE /\ pc' = [pc EXCEPT ![p] = "save_commit"]
                /\ local' = [local EXCEPT ![p] = <<pending, loaded>>]
                /\ UNCHANGED ret
        /\ UNCHANGED <<records, users, session, now, calls, saved, db_session>>

\* lines 53-59: add and commit, or the rollback
SaveCommit(p, fail) ==
    /\ pc[p] = "save_commit"
    /\ LET pending == local[p][1]
           r == save_word_record_commit(records, pending, local[p][2], fail)
       IN  /\ records' = r.rows
           /\ ret' = [op |-> "save_word_record", val |-> r.ok,
                      key |-> RowKey(pending.row),
                      found |-> pending.found,
                      conflict |-> /\ ~fail
                                   /\ ~pending.found
                                   /\ ~UniqueWordLanguageUserOk(records,
                                                                pending.row)]
           /\ saved' = IF r.ok
                       THEN Recorded(saved, RowKey(pending.row),
                                     pending.row.definition)
                       ELSE saved
    /\ pc' = [pc EXCEPT ![p] = "idle"]
    /\ local' = [local EXCEPT ![p] = <<>>]
    /\ UNCHANGED <<users, session, now, calls, db_session>>

NextSaveConcurrent ==
    \/ \E p \in Workers, d \in Definitions, u \in SaveUserRefs,
          fail \in BOOLEAN :
           /\ TotalSaves(records) < MaxSaves
           /\ SaveBegin(p, <<97>>, "english", d, u, fail)
    \/ \E p \in Workers, fail \in BOOLEAN : SaveCommit(p, fail)

SpecSaveConcurrent == Init /\ [][NextSaveConcurrent]_vars

-----------------------------------------------------------------------------
(* One client of the routes                                                *)

LookupWord(data, outcome, fail) ==
    LET r == lookup_word(records, users, session, RequestField(data, "word"),
                         outcome, now, fail)
    IN  /\ records' = r.rows
        /\ ret' = [op |-> "lookup",
                   val |-> [status |-> r.status, body |-> r.body]]
        /\ calls' = r.calls
        /\ saved' = IF r.ok
                    THEN Recorded(saved,
                                  Key(r.body.word, r.body.language,
                                      CurrentUserId(users, session)),
                                  r.body.definition)
                    ELSE saved
        /\ UNCHANGED <<users, session, now, pc, local, db_session>>

\* get_history: get_query_history(user_id=user_id), with the default limit
GetHistory ==
    /\ \E h \in get_query_history(records, DefaultLimit,
                                   CurrentUserId(users, session), FALSE) :
           ret' = [op |-> "history",
                   val |-> [status |-> 200, body |-> [history |-> h]]]
    /\ calls' = <<[fn |-> "get_query_history",
                   args |-> <<DefaultLimit, CurrentUserId(users, session)>>]>>
    /\ UNCHANGED <<records, users, session, now, saved, pc, local, db_session>>

Register(data, fault) ==
    LET r == register(users, RequestField(data, "username"),
                      RequestField(data, "email"),
                      RequestField(data, "password"),
                      RequestField(data, "display_name"), now, fault)
    IN  /\ users' = r.rows
        /\ ret' = [op |-> "register",
                   val |-> [status |-> r.status, body |-> r.body]]
        /\ calls' = r.calls
        /\ UNCHANGED <<records, session, now, saved, pc, local, db_session>>

Login(rawUsername, rawPassword, fault) ==
    LET r == login(users, session, rawUsername, rawPassword, now, fault)
    IN  /\ users' = r.rows
        /\ session' = r.sid
        /\ ret' = [op |-> "login",
                   val |-> [status |-> r.status, body |-> r.body]]
        /\ calls' = r.calls
        /\ UNCHANGED <<records, now, saved, pc, local, db_session>>

Logout ==
    LET r == logout(users, session)
    IN  /\ session' = r.sid
        /\ ret' = [op |-> "logout",
                   val |-> [status |-> r.status, body |-> r.body]]
        /\ calls' = <<>>
        /\ UNCHANGED <<records, users, now, saved, pc, local, db_session>>

NextRoutes ==
    \/ \E data \in LookupBodies, outcome \in ProviderOutcomes,
          fail \in BOOLEAN :
           /\ TotalSaves(records) < MaxLookups
           /\ LookupWord(data, outcome, fail)
    \/ GetHistory
    \/ \E data \in RegisterRequests, fault \in Faults :
           Register(data, fault)
    \/ \E req \in LoginRequests, fault \in Faults :
           Login(req[1], req[2], fault)
    \/ Logout

SpecRoutes == Init /\ [][NextRoutes]_vars

-----------------------------------------------------------------------------
(* Authentication: accounts that may be disabled, and a clock that runs    *)

\* the accounts registered: "x" is the username of one and the email of the
\* other, and their passwords differ
AuthAccounts ==
    {<<(<<120>>), (<<101, 49>>), (<<115, 101, 99, 114, 101, 116>>)>>,
     <<(<<117, 49>>), (<<120>>), (<<104, 117, 110, 116, 101, 114>>)>>}

\* user.is_active = active; db.session.commit(): an account is disabled or
\* enabled by whoever administers the table
SetActive(i, active) ==
    /\ users[i].is_active # active
    /\ users' = [users EXCEPT ![i].is_active = active]
    /\ ret' = [op |-> "set_active", val |-> users[i].id]
    /\ UNCHANGED <<records, session, now, calls, saved, pc, local, db_session>>

\* time passes between two calls
Tick ==
    /\ now < MaxTime
    /\ now' = now + 1
    /\ UNCHANGED <<records, users, session, ret, calls, saved, pc, local,
                   db_session>>

NextAuth ==
    \/ \E a \in AuthAccounts : CreateUser(a[1], a[2], a[3], NoText, "none")
    \/ \E i \in 1..Len(users), active \in BOOLEAN : SetActive(i, active)
    \/ Tick
    \/ \E id \in Usernames \cup Emails, pw \in Passwords, fault \in Faults :
           AuthenticateUser(id, pw, fault)
    \/ \E req \in LoginRequests, fault \in Faults :
           Login(req[1], req[2], fault)

SpecAuth == Init /\ [][NextAuth]_vars

-----------------------------------------------------------------------------
(* The stores called one after another in one application context, which   *)
(* is one db.session                                                       *)

SessionCreateUser(username, email, password, fault) ==
    LET r == create_user_in_session(users, db_session, username, email,
                                    password, now, fault)
    IN  /\ users' = r.rows
        /\ db_session' = r.sess
        /\ ret' = [op |-> "create_user", val |-> r.val,
                   args |-> <<username, email>>, fault |-> fault]
        /\ UNCHANGED <<records, session, now, calls, saved, pc, local>>

SessionAuthenticateUser(username, password, fault, left) ==
    LET r == authenticate_user_in_session(users, db_session, username,
                                          password, now, fault, left)
    IN  /\ users' = r.rows
        /\ db_session' = r.sess
        /\ ret' = [op |-> "authenticate_user",
                   val |-> [user |-> r.user, message |-> r.message,
                            args |-> <<username, password>>],
                   fault |-> fault]
        /\ UNCHANGED <<records, session, now, calls, saved, pc, local>>

SessionSaveWordRecord(word, language, definition, user_id, fail) ==
    LET r == save_word_record_in_session(records, users, db_session, word,
                                         language, definition, user_id, now,
                                         fail)
    IN  /\ records' = r.rows
        /\ users' = r.urows
        /\ db_session' = r.sess
        /\ ret' = [op |-> "save_word_record", val |-> r.ok,
                   flushed |-> IF r.ok THEN db_session.pending ELSE <<>>]
        /\ saved' = IF r.ok
                    THEN Recorded(saved, Key(word, language, user_id),
                                  definition)
                    ELSE saved
        /\ UNCHANGED <<session, now, calls, pc, local>>

NextSession ==
    \/ \E a \in AuthAccounts, fault \in Faults :
           SessionCreateUser(a[1], a[2], a[3], fault)
    \/ \E a \in AuthAccounts, pw \in Passwords, fault \in Faults,
          left \in CommitFailures :
           SessionAuthenticateUser(a[1], pw, fault, left)
    \/ \E d \in Definitions, fail \in BOOLEAN :
           /\ TotalSaves(records) < MaxSaves
           /\ SessionSaveWordRecord(<<97>>, "english", d, NULL, fail)
    \/ Tick

SpecSession == Init /\ [][NextSession]_vars

-----------------------------------------------------------------------------
(* Long definitions in the history                                         *)

\* a text of n letters, all positions told apart by their neighbours
LongText(n) == [i \in 1..n |-> 97 + (i % 26)]

\* definitions of 3, 199, 200, 201 and 230 characters
LongDefinitions == {LongText(n) : n \in {3, 199, 200, 201, 230}}

NextTruncate ==
    \/ \E w \in {<<97>>, <<98>>}, d \in LongDefinitions :
           /\ TotalSaves(records) < MaxSaves
           /\ SaveWordRecord(w, "english", d, 1, FALSE)
    \/ GetQueryHistory(DefaultLimit, 1, FALSE)

SpecTruncate == Init /\ [][NextTruncate]_vars

-----------------------------------------------------------------------------
(* The pure functions, called on their own                                 *)

\* space, newline, "1", "!", "a", U+4DFF, U+4E00, U+9FFF, U+A000
TextAlphabet == {32, 10, 49, 33, 97, 19967, 19968, 40959, 40960}
Texts == UNION {[1..n -> TextAlphabet] : n \in 0..MaxTextLen}

\* the languages and styles get_prompt is given, known and unknown
PromptLanguages == {"chinese", "english", "invalid", ""}
PromptStyles == {"standard", "detailed", "invalid", ""}

\* one call to make: detect_language(text) or get_prompt(language, style)
PureCalls ==
    {<<"detect_language", text>> : text \in Texts}
        \cup {<<"get_prompt", language, style>> :
                  language \in PromptLanguages, style \in PromptStyles}

\* the state before the call: worker 1 holds the call to make
InitPure ==
    /\ records = <<>>
    /\ users = <<>>
    /\ session = NULL
    /\ now = 1
    /\ ret = [op |-> "none", val |-> NULL]
    /\ calls = <<>>
    /\ saved = <<>>
    /\ pc = [p \in {1, 2} |-> "idle"]
    /\ \E call \in PureCalls :
           local = [p \in {1, 2} |-> IF p = 1 THEN call ELSE <<>>]
    /\ db_session = CleanSession

DetectLanguage ==
    /\ pc[1] = "idle"
    /\ local[1][1] = "detect_language"
    /\ ret' = [op |-> "detect_language", val |-> detect_language(local[1][2]),
               args |-> <<local[1][2]>>]
    /\ pc' = [pc EXCEPT ![1] = "done"]
    /\ UNCHANGED <<records, users, session, now, calls, saved, local,
                   db_session>>

GetPrompt ==
    /\ pc[1] = "idle"
    /\ local[1][1] = "get_prompt"
    /\ ret' = [op |-> "get_prompt",
               val |-> get_prompt(local[1][2], local[1][3]),
               args |-> <<local[1][2], local[1][3]>>]
    /\ pc' = [pc EXCEPT ![1] = "done"]
    /\ UNCHANGED <<records, users, session, now, calls, saved, local,
                   db_session>>

NextPure ==
    \/ DetectLanguage
    \/ GetPrompt

SpecPure == InitPure /\ [][NextPure]_vars

-----------------------------------------------------------------------------
(* The word-record store: uniqueness, counting, isolation, ranking         *)

RowsWithKey(rows, key) == {i \in 1..Len(rows) : RowKey(rows[i]) = key}

QueryTimesOf(h) == [k \in 1..Len(h) |-> h[k].query_times]

\* C1: after any sequence of save_word_record calls that do not overlap, no
\* two rows of word_records have the same (word, language, user_id), the
\* null user included.
C1_AtMostOneRowPerTriple ==
    \A i, j \in 1..Len(records) :
        i # j => RowKey(records[i]) # RowKey(records[j])

\* a null-user triple saved at least twice, and one row for it
C1_Witness ==
    \E key \in DOMAIN saved :
        /\ key[3] = NULL
        /\ saved[key].n >= 2
        /\ Cardinality(RowsWithKey(records, key)) = 1

\* C2: a triple saved successfully k >= 1 times has exactly one row, whose
\* query_times is k and whose definition is the one passed to the most
\* recent of these saves, whatever was saved on other triples in between.
C2_CountsSavesKeepsLastDefinition ==
    \A key \in DOMAIN saved :
        /\ Cardinality(RowsWithKey(records, key)) = 1
        /\ \A i \in RowsWithKey(records, key) :
               /\ records[i].query_times = saved[key].n
               /\ records[i].definition = saved[key].definition

\* a triple saved twice or more, created before another triple's row and
\* last saved with a definition other than that row's
C2_Witness ==
    \E key \in DOMAIN saved :
        /\ saved[key].n >= 2
        /\ Len(records) >= 2
        /\ RowKey(records[1]) = key
        /\ records[2].definition # saved[key].definition

\* C3: save_word_record(w, l, d, u) creates or changes only the row with key
\* (w, l, u): every other row is as it was, no row is removed, and a row it
\* adds has that key.  A triple of a user and the same word and language
\* under the null user, each saved once, are two rows, each with its own
\* definition and query_times 1.
C3_SaveTouchesOnlyItsKey ==
    /\ \A w \in Words, l \in Languages, d \in Definitions, u \in UserRefs,
          fail \in BOOLEAN :
           LET after == save_word_record(records, w, l, d, u, now, fail).rows
           IN  /\ Len(after) >= Len(records)
               /\ \A i \in 1..Len(records) :
                      RowKey(records[i]) # Key(w, l, u) => after[i] = records[i]
               /\ \A i \in 1..Len(after) :
                      i > Len(records) => RowKey(after[i]) = Key(w, l, u)
    /\ \A w \in Words, l \in Languages, u \in UserRefs \ {NULL} :
           LET owned == Key(w, l, u)
               anonymous == Key(w, l, NULL)
           IN  (/\ owned \in DOMAIN saved
                /\ anonymous \in DOMAIN saved
                /\ saved[owned].n = 1
                /\ saved[anonymous].n = 1)
               => \E i, j \in 1..Len(records) :
                      /\ i # j
                      /\ RowKey(records[i]) = owned
                      /\ RowKey(records[j]) = anonymous
                      /\ records[i].definition = saved[owned].definition
                      /\ records[j].definition = saved[anonymous].definition
                      /\ records[i].query_times = 1
                      /\ records[j].query_times = 1

\* a word saved once for a user and once for the null user, with different
\* definitions, the null user's save last
C3_Witness ==
    /\ ret.op = "save_word_record"
    /\ ret.val = TRUE
    /\ Len(records) = 2
    /\ records[1].word = records[2].word
    /\ records[1].language = records[2].language
    /\ records[1].user_id # NULL
    /\ records[2].user_id = NULL
    /\ records[1].definition # records[2].definition
    /\ records[1].query_times = 1
    /\ records[2].query_times = 1

\* C4: get_query_history(user_ref = x) selects only rows whose user_id is
\* x, and every entry it returns is the entry of such a row: none of the
\* null user's or of another user's for a user id, none of any user's for
\* the null user.
C4_HistoryOnlyOwnRecords ==
    \A limit \in Limits, x \in UserRefs :
        /\ \A sel \in RankedSelections(records, limit, x) :
               \A k \in 1..Len(sel) : records[sel[k]].user_id = x
        /\ \A fail \in BOOLEAN :
               \A h \in get_query_history(records, limit, x, fail) :
                   \A k \in 1..Len(h) :
                       \E i \in 1..Len(records) :
                           /\ records[i].user_id = x
                           /\ h[k] = HistoryEntry(records[i])

\* rows of the null user and of two users, and a history just returned with
\* one entry, which only one of the three rows has
C4_Witness ==
    /\ {records[i].user_id : i \in 1..Len(records)} = UserRefs
    /\ ret.op = "get_query_history"
    /\ Len(ret.val) = 1
    /\ Cardinality({i \in 1..Len(records) :
                        HistoryEntry(records[i]) = ret.val[1]}) = 1

\* C5: the list get_query_history returns has query_times non-increasing;
\* when the caller's records have the query_times 5, 4, 3 and 1, the list
\* is 5, 4, 3, 1 whatever the order the records were created in.
C5_HistoryRanked ==
    \A limit \in Limits, x \in UserRefs, fail \in BOOLEAN :
        \A h \in get_query_history(records, limit, x, fail) :
            /\ \A i, j \in 1..Len(h) :
                   i < j => h[i].query_times >= h[j].query_times
            /\ (/\ ~fail
                 /\ limit >= 4
                 /\ Cardinality(RecordsOfUser(records, x)) = 4
                 /\ {records[i].query_times : i \in RecordsOfUser(records, x)}
                        = {5, 4, 3, 1})
                => QueryTimesOf(h) = <<5, 4, 3, 1>>

\* records created in the order 1, 3, 4, 5 of their query_times and a
\* history just returned as 5, 4, 3, 1
C5_Witness ==
    /\ Len(records) = 4
    /\ [i \in 1..4 |-> records[i].query_times] = <<1, 3, 4, 5>>
    /\ ret.op = "get_query_history"
    /\ QueryTimesOf(ret.val) = <<5, 4, 3, 1>>

\* C6: with n records of the caller, get_query_history returns min(limit, n)
\* entries, for the default limit of 20 too, and no record it leaves out has
\* a query_times greater than that of a record it returns.
C6_HistoryTopRanked ==
    \A limit \in Limits, x \in UserRefs :
        LET mine == RecordsOfUser(records, x)
        IN  /\ \A h \in get_query_history(records, limit, x, FALSE) :
                   Len(h) = Min(limit, Cardinality(mine))
            /\ \A sel \in RankedSelections(records, limit, x) :
                   /\ Len(sel) = Min(limit, Cardinality(mine))
                   /\ \A a, b \in 1..Len(sel) : a # b => sel[a] # sel[b]
                   /\ \A i \in mine \ {sel[k] : k \in 1..Len(sel)} :
                          \A k \in 1..Len(sel) :
                              records[i].query_times
                                  <= records[sel[k]].query_times

\* three records, the oldest with the least query_times, and a history of
\* two entries just returned: the oldest record is the one left out
C6_Witness ==
    /\ Len(records) = 3
    /\ records[1].query_times < records[2].query_times
    /\ records[1].query_times < records[3].query_times
    /\ ret.op = "get_query_history"
    /\ Len(ret.val) = 2

-----------------------------------------------------------------------------
(* The lookup route: what is persisted                                     *)

IsSaveCall(c) == c.fn = "save_word_record"

\* the session's user as the route sees it, written out
SessionUser ==
    IF session # NULL
       /\ \E i \in 1..Len(users) : users[i].id = session /\ users[i].is_active
    THEN session ELSE NULL

\* C7: lookup_word persists a definition if and only if it does not start
\* with "查詢時發生錯誤".  Without the marker it calls save_word_record
\* exactly once, with the stripped word, the detected language, the
\* definition and the current user id or null; with the marker, from a
\* provider failure or in the provider's own text, it does not call it and
\* the table is as before.
C7_PersistsIffNoMarker ==
    /\ \A raw \in RawWords, outcome \in ProviderOutcomes, fail \in BOOLEAN :
           LET r == lookup_word(records, users, session, raw, outcome, now,
                                fail)
               word == Strip(raw)
               saves == SelectSeq(r.calls, IsSaveCall)
           IN  word # <<>> =>
                   IF StartsWith(r.body.definition, ErrorMarker)
                   THEN saves = <<>> /\ r.rows = records
                   ELSE /\ Len(saves) = 1
                        /\ saves[1].args =
                               <<word, detect_language(word),
                                 r.body.definition, SessionUser>>
                        /\ r.rows =
                               save_word_record(records, word,
                                                detect_language(word),
                                                r.body.definition, SessionUser,
                                                now, fail).rows
    /\ (ret.op = "lookup" /\ ret.val.status = 200) =>
           LET saves == SelectSeq(calls, IsSaveCall)
           IN  IF StartsWith(ret.val.body.definition, ErrorMarker)
               THEN saves = <<>>
               ELSE /\ Len(saves) = 1
                    /\ saves[1].args =
                           <<ret.val.body.word, ret.val.body.language,
                             ret.val.body.definition, SessionUser>>

\* a logged-in user has just looked up " a ": one save, of "a", for that user
C7_Witness ==
    /\ ret.op = "lookup"
    /\ ret.val.status = 200
    /\ Len(SelectSeq(calls, IsSaveCall)) = 1
    /\ calls[2].args[1] = <<97>>
    /\ calls[2].args[4] = session
    /\ session # NULL
    /\ \E i \in 1..Len(records) : records[i].user_id = session

\* C8: when the provider raises, get_word_definition returns the marker
\* "查詢時發生錯誤" followed by the failure's description, the lookup answers
\* 200 with that definition, no row of word_records is created or changed,
\* and the history of the caller is what it was.
C8_ProviderFailureNotSaved ==
    \A raw \in RawWords, outcome \in ProviderOutcomes, fail \in BOOLEAN :
        LET r == lookup_word(records, users, session, raw, outcome, now, fail)
            d == outcome.text
        IN  (Strip(raw) # <<>> /\ outcome.raised) =>
                /\ r.status = 200
                /\ StartsWith(r.body.definition, ErrorMarker)
                /\ Len(r.body.definition) > Len(ErrorMarker) + Len(d)
                /\ SubSeq(r.body.definition,
                          Len(r.body.definition) - Len(d) + 1,
                          Len(r.body.definition)) = d
                /\ r.rows = records
                /\ SelectSeq(r.calls, IsSaveCall) = <<>>
                /\ get_query_history(r.rows, DefaultLimit, SessionUser, FALSE)
                       = get_query_history(records, DefaultLimit, SessionUser,
                                           FALSE)

\* a lookup has just been answered with the marker, ": " and the failure's
\* description, while the caller has a record from an earlier lookup
C8_Witness ==
    /\ ret.op = "lookup"
    /\ ret.val.status = 200
    /\ ret.val.body.definition = ErrorMarker \o <<58, 32, 101>>
    /\ Len(calls) = 1
    /\ \E i \in 1..Len(records) : records[i].user_id = SessionUser

-----------------------------------------------------------------------------
(* The user store: unique usernames and emails                             *)

\* C9: in every state of table users, whatever the order and interleaving
\* of the create_user calls, no two rows have the same username and no two
\* the same email.
C9_UsernamesAndEmailsUnique ==
    \A i, j \in 1..Len(users) :
        i # j => /\ users[i].username # users[j].username
                 /\ users[i].email # users[j].email

\* a call that passed both checks is about to insert a new username with
\* an email that another call has committed in the meantime
C9_Witness ==
    \E p \in Workers :
        /\ pc[p] = "commit"
        /\ \E i \in 1..Len(users) :
               /\ users[i].email = local[p][2]
               /\ users[i].username # local[p][1]

\* C10: create_user returns (False, "用戶名已存在") when the username
\* exists, also when the email exists too, and (False, "電子郵件已被註冊")
\* when only the email exists; in both cases table users is as before.
\* (The storage answering the two lookups; a failing commit is never
\* reached by these calls.)
C10_DuplicateMessages ==
    \A un \in Usernames, em \in Emails, pw \in Passwords, dn \in DisplayNames,
       fault \in {"none", "commit"} :
        LET r == create_user(users, un, em, pw, dn, now, fault)
            nameTaken == \E i \in 1..Len(users) : users[i].username = un
            emailTaken == \E i \in 1..Len(users) : users[i].email = em
        IN  /\ nameTaken =>
                   /\ r.val = [ok |-> FALSE, message |-> MsgUsernameExists]
                   /\ r.rows = users
            /\ (~nameTaken /\ emailTaken) =>
                   /\ r.val = [ok |-> FALSE, message |-> MsgEmailRegistered]
                   /\ r.rows = users

\* both usernames and both emails are taken, and create_user has just
\* answered with the username message
C10_Witness ==
    /\ Len(users) = 2
    /\ ret.op = "create_user"
    /\ ret.val.ok = FALSE
    /\ ret.val.message = MsgUsernameExists

-----------------------------------------------------------------------------
(* Authentication: the order of the checks, the identity, last_login       *)

\* the rows an identifier may stand for, written out: by username, by email
ByUsername(rows, identifier) ==
    {i \in 1..Len(rows) : rows[i].username = identifier}

ByEmail(rows, identifier) ==
    {i \in 1..Len(rows) : rows[i].email = identifier}

\* the row whose password authenticate_user is to test
Identified(rows, identifier) ==
    IF ByUsername(rows, identifier) # {} THEN ByUsername(rows, identifier)
    ELSE ByEmail(rows, identifier)

PasswordOf(row) == row.password_hash[2]

\* C11: authenticate_user checks existence, then the password, then the
\* active flag: (None, "用戶不存在") when no user matches the identifier;
\* otherwise (None, "密碼錯誤") when the password does not match, also for
\* a disabled account; otherwise (None, "帳戶已被停用") when the account is
\* disabled; a user is returned only when all three checks pass.
C11_ChecksInOrder ==
    \A id \in Usernames \cup Emails, pw \in Passwords, fault \in Faults :
        LET r == authenticate_user(users, id, pw, now, fault)
            who == Identified(users, id)
        IN  /\ (fault = "none" /\ who = {}) =>
                   r.user = NULL /\ r.message = MsgNoSuchUser
            /\ \A i \in who :
                   /\ (fault = "none" /\ PasswordOf(users[i]) # pw) =>
                          r.user = NULL /\ r.message = MsgWrongPassword
                   /\ (/\ fault = "none"
                       /\ PasswordOf(users[i]) = pw
                       /\ ~users[i].is_active) =>
                          r.user = NULL /\ r.message = MsgDisabled
            /\ r.user # NULL =>
                   \E i \in who :
                       /\ users[i].id = r.user
                       /\ PasswordOf(users[i]) = pw
                       /\ users[i].is_active

\* a disabled account has just been given a wrong password and the answer
\* is the password message
C11_Witness ==
    /\ ret.op = "authenticate_user"
    /\ ret.val.message = MsgWrongPassword
    /\ \E i \in Identified(users, ret.val.args[1]) :
           /\ ~users[i].is_active
           /\ PasswordOf(users[i]) # ret.val.args[2]

\* C12: for a disabled account authenticate_user returns no user, with
\* "帳戶已被停用" when the password is the right one, and leaves its
\* last_login (and the table) as it was; login never binds the session to
\* a disabled account.
C12_DisabledNeverAuthenticated ==
    /\ \A id \in Usernames \cup Emails, pw \in Passwords, fault \in Faults :
           LET r == authenticate_user(users, id, pw, now, fault)
           IN  \A i \in Identified(users, id) :
                   ~users[i].is_active =>
                       /\ r.user = NULL
                       /\ r.rows = users
                       /\ (fault = "none" /\ PasswordOf(users[i]) = pw) =>
                              r.message = MsgDisabled
    /\ \A req \in LoginRequests, fault \in Faults :
           LET l == login(users, session, req[1], req[2], now, fault)
           IN  /\ \A i \in Identified(users, Strip(req[1])) :
                      ~users[i].is_active =>
                          /\ l.status # 200
                          /\ l.sid = session
                          /\ l.rows = users
               /\ l.status = 200 =>
                      \E i \in 1..Len(l.rows) :
                          l.rows[i].id = l.sid /\ l.rows[i].is_active

\* an account that had logged in was disabled, and a login with its right
\* password has just been refused with the disabled message
C12_Witness ==
    /\ ret.op = "login"
    /\ ret.val.status = 401
    /\ ret.val.body.error = MsgDisabled
    /\ session = NULL
    /\ \E i \in 1..Len(users) :
           /\ ~users[i].is_active
           /\ users[i].last_login # NULL
           /\ users[i].last_login < now
           /\ calls[1].args = <<users[i].username, PasswordOf(users[i])>>

\* identifiers tried: the usernames and emails, and "X" and "x ", which are
\* no account's username or email
AuthIdentifiers == Usernames \cup Emails \cup {<<88>>, <<120, 32>>}

\* C13: authenticate_user resolves the identifier by exact username match
\* first, and by exact email match only when no user has that username:
\* when it is A's username and B's email, the password is tested against A
\* only, and B's password gives "密碼錯誤", not a login as B.
C13_UsernameBeforeEmail ==
    \A id \in AuthIdentifiers, pw \in Passwords :
        LET r == authenticate_user(users, id, pw, now, "none")
            A == ByUsername(users, id)
            B == ByEmail(users, id)
        IN  /\ \A a \in A :
                   /\ r.user \in {NULL, users[a].id}
                   /\ r.user # NULL <=>
                          PasswordOf(users[a]) = pw /\ users[a].is_active
                   /\ PasswordOf(users[a]) # pw =>
                          /\ r.message = MsgWrongPassword
                          /\ r.rows = users
            /\ A = {} =>
                   \A b \in B :
                       /\ r.user \in {NULL, users[b].id}
                       /\ r.user # NULL <=>
                              PasswordOf(users[b]) = pw /\ users[b].is_active
            /\ (A = {} /\ B = {}) => r.message = MsgNoSuchUser

\* "x" is one account's username and another's email, both are active, and
\* the second account's password has just been refused for "x"
C13_Witness ==
    /\ ret.op = "authenticate_user"
    /\ ret.val.user = NULL
    /\ ret.val.message = MsgWrongPassword
    /\ \E a, b \in 1..Len(users) :
           /\ a # b
           /\ users[a].username = ret.val.args[1]
           /\ users[b].email = ret.val.args[1]
           /\ PasswordOf(users[b]) = ret.val.args[2]
           /\ users[a].is_active
           /\ users[b].is_active

\* C14: a successful authenticate_user sets the user's last_login to the
\* time of the call, which is not null and not before the old value, in the
\* committed table, and returns that user; nothing else in the table
\* changes.  A call that fails for want of an identity, for a wrong
\* password or for a disabled account leaves the table as it was.
C14_LastLoginOnSuccessOnly ==
    \A id \in AuthIdentifiers, pw \in Passwords, fault \in Faults :
        LET r == authenticate_user(users, id, pw, now, fault)
        IN  /\ r.user # NULL =>
                   \E i \in 1..Len(users) :
                       /\ users[i].id = r.user
                       /\ r.message = MsgLoggedIn
                       /\ r.rows = [users EXCEPT ![i].last_login = now]
                       /\ r.rows[i].last_login # NULL
                       /\ r.rows[i].last_login >= users[i].last_login
            /\ r.message \in {MsgNoSuchUser, MsgWrongPassword, MsgDisabled} =>
                   r.user = NULL /\ r.rows = users

\* an account created at an earlier time has just logged in, and the other
\* account's last_login is still null
C14_Witness ==
    /\ ret.op = "authenticate_user"
    /\ ret.val.user # NULL
    /\ now > 1
    /\ Len(users) = 2
    /\ \E i, j \in 1..2 :
           /\ users[i].id = ret.val.user
           /\ users[i].last_login = now
           /\ users[i].created_on < now
           /\ users[j].last_login = NULL

-----------------------------------------------------------------------------
(* The stores: failures of the storage                                     *)

\* C15: when the commit inside create_user raises, create_user returns
\* (False, "註冊失敗，請稍後再試"), which is neither duplicate message, and
\* table users is what it was before the call: no row has the attempted
\* username or email.
C15_CommitFailureRolledBack ==
    /\ MsgRegisterFailed \notin {MsgUsernameExists, MsgEmailRegistered}
    /\ \A un \in Usernames, em \in Emails, pw \in Passwords,
          dn \in DisplayNames :
           LET r == create_user(users, un, em, pw, dn, now, "commit")
           IN  (/\ \A i \in 1..Len(users) : users[i].username # un
                /\ \A i \in 1..Len(users) : users[i].email # em)
               => /\ r.val = [ok |-> FALSE, message |-> MsgRegisterFailed]
                  /\ r.rows = users
                  /\ \A i \in 1..Len(r.rows) :
                         r.rows[i].username # un /\ r.rows[i].email # em
    /\ (ret.op = "create_user" /\ ret.fault = "commit"
        /\ ret.val.message = MsgRegisterFailed) =>
           \A i \in 1..Len(users) :
               /\ users[i].username # ret.args[1]
               /\ users[i].email # ret.args[2]

\* beside one registered user, the registration of a free username and a
\* free email has just failed at its commit
C15_Witness ==
    /\ ret.op = "create_user"
    /\ ret.fault = "commit"
    /\ ret.val = [ok |-> FALSE, message |-> MsgRegisterFailed]
    /\ Len(users) = 1
    /\ users[1].username # ret.args[1]
    /\ users[1].email # ret.args[2]

\* C16: when a persistence step of save_word_record raises (the lookup, the
\* insert or the commit) the call returns False and rolls back: the rows of
\* word_records, their definitions and their query_times are as before the
\* call, also when the call had staged the increment of an existing row.
C16_SaveFailureRolledBack ==
    /\ \A d \in Definitions, u \in SaveUserRefs :
           save_word_record(records, <<97>>, "english", d, u, now, TRUE)
               = [rows |-> records, ok |-> FALSE]
    /\ \A p \in Workers :
           pc[p] = "save_commit" =>
               LET pending == local[p][1]
                   raised == save_word_record_commit(records, pending,
                                                     local[p][2], TRUE)
                   flushed == save_word_record_commit(records, pending,
                                                      local[p][2], FALSE)
               IN  /\ raised = [rows |-> records, ok |-> FALSE]
                   /\ ~flushed.ok => flushed.rows = records

\* a call that had staged the increment of an existing row has just
\* failed: the row still has query_times 1 and the definition saved first
C16_Witness ==
    /\ ret.op = "save_word_record"
    /\ ret.val = FALSE
    /\ ret.found
    /\ ret.key \in DOMAIN saved
    /\ saved[ret.key].n = 1
    /\ Len(records) = 1
    /\ records[1].query_times = 1
    /\ records[1].definition = saved[ret.key].definition

\* C17: when the commit of the last_login update raises, authenticate_user
\* returns (None, "登入失敗，請稍後再試") and the staged last_login is rolled
\* back: nothing is left staged in the session, and no later operation's
\* commit writes a last_login.
C17_LoginCommitFailureRolledBack ==
    /\ (/\ ret.op = "authenticate_user"
        /\ ret.fault = "commit"
        /\ ret.val.message = MsgLoginFailed) =>
           db_session.pending = <<>>
    /\ ret.op = "save_word_record" => ret.flushed = <<>>

-----------------------------------------------------------------------------
(* Overlapping calls                                                       *)

\* C18: when two save_word_record calls on one absent triple both read
\* "absent" before either commits, the uniqueness constraint on (word,
\* language, user_id) rejects the second insert, for a user id and for the
\* null user alike: in every reachable state there is at most one row per
\* triple.
C18_OneRowPerTripleWhenOverlapping ==
    \A u \in SaveUserRefs :
        Cardinality(RowsWithKey(records, Key(<<97>>, "english", u))) <= 1

\* C19: when the insert of a save_word_record call is rejected because a
\* concurrent call inserted the same triple first, the call goes on as an
\* update: it returns True and the row's query_times counts both calls.
C19_ConflictRetriedAsUpdate ==
    (ret.op = "save_word_record" /\ ret.conflict) =>
        /\ ret.val = TRUE
        /\ \A i \in RowsWithKey(records, ret.key) :
               records[i].query_times >= 2

\* C20: when two create_user calls with the same username, or the same
\* email, both pass the existence checks before either commits, one row is
\* created, the rows there are unchanged, and the call that loses reports
\* the duplicate message of that column.
C20_RaceLoserGetsDuplicateMessage ==
    /\ \A i, j \in 1..Len(users) :
           i # j => /\ users[i].username # users[j].username
                    /\ users[i].email # users[j].email
    /\ (ret.op = "create_user" /\ ret.conflict = "username") =>
           ret.val = [ok |-> FALSE, message |-> MsgUsernameExists]
    /\ (ret.op = "create_user" /\ ret.conflict = "email") =>
           ret.val = [ok |-> FALSE, message |-> MsgEmailRegistered]

-----------------------------------------------------------------------------
(* The pure functions                                                      *)

\* C26: detect_language returns "chinese" for every text with a code point
\* in U+4E00..U+9FFF, wherever it stands, and "english" for every other
\* text, the empty one, whitespace, digits and punctuation included; it
\* changes nothing.  (Every text of Texts is classified in some run.)
C26_DetectLanguageByCjk ==
    ret.op = "detect_language" =>
        LET text == ret.args[1]
            cjk == {i \in 1..Len(text) : text[i] \in 19968..40959}
        IN  /\ cjk # {} => ret.val = "chinese"
            /\ cjk = {} => ret.val = "english"
            /\ records = <<>> /\ users = <<>> /\ session = NULL

\* "a", then U+9FFF, then "!" has just been classified as Chinese
C26_Witness ==
    /\ ret.op = "detect_language"
    /\ ret.args[1] = <<97, 40959, 33>>
    /\ ret.val = "chinese"

\* C27: get_prompt returns the template of the pair for a language in
\* {chinese, english} and a style in {standard, detailed}, and the
\* Chinese standard template for every other pair: for ("english", unknown
\* style) too, not the English standard one.
C27_GetPromptDefaultsToChineseStandard ==
    /\ get_prompt("chinese", "standard") = "CHINESE_PROMPT"
    /\ get_prompt("chinese", "detailed") = "CHINESE_PROMPT_DETAILED"
    /\ get_prompt("english", "standard") = "ENGLISH_PROMPT"
    /\ get_prompt("english", "detailed") = "ENGLISH_PROMPT_DETAILED"
    /\ \A language \in PromptLanguages, style \in PromptStyles :
           (language \notin {"chinese", "english"}
            \/ style \notin {"standard", "detailed"})
               => get_prompt(language, style) = "CHINESE_PROMPT"
    /\ ret.op = "get_prompt" =>
           ret.val \in {"CHINESE_PROMPT", "CHINESE_PROMPT_DETAILED",
                        "ENGLISH_PROMPT", "ENGLISH_PROMPT_DETAILED"}

\* get_prompt("english", "invalid") has just returned the Chinese standard
\* template
C27_Witness ==
    /\ ret.op = "get_prompt"
    /\ ret.args = <<"english", "invalid">>
    /\ ret.val = "CHINESE_PROMPT"

-----------------------------------------------------------------------------
(* The history: truncated definitions                                      *)

\* C28: the definition of an entry get_query_history returns is the stored
\* definition when that has at most 200 characters, and its first 200
\* characters followed by "..." when it has more; the stored definition is
\* not shortened by the read.
C28_HistoryDefinitionTruncated ==
    /\ \A sel \in RankedSelections(records, DefaultLimit, 1) :
           \A h \in get_query_history(records, DefaultLimit, 1, FALSE) :
               (\A k \in 1..Len(h) : h[k].word = records[sel[k]].word) =>
                   \A k \in 1..Len(h) :
                       LET stored == records[sel[k]].definition
                       IN  IF Len(stored) <= 200
                           THEN h[k].definition = stored
                           ELSE /\ Len(h[k].definition) = 203
                                /\ \A j \in 1..200 :
                                       h[k].definition[j] = stored[j]
                                /\ \A j \in 201..203 :
                                       h[k].definition[j] = 46
    /\ ret.op = "get_query_history" =>
           \A i \in 1..Len(records) :
               records[i].definition = saved[RowKey(records[i])].definition

\* a history just returned with an entry of 203 characters for a stored
\* definition of 201, and an entry of 200 for a stored definition of 200
C28_Witness ==
    /\ ret.op = "get_query_history"
    /\ Len(ret.val) = 2
    /\ {Len(records[i].definition) : i \in 1..Len(records)} = {200, 201}
    /\ {Len(ret.val[k].definition) : k \in 1..2} = {200, 203}

\* bodies posted to /lookup whose word is missing, empty or only whitespace:
\* no key, "", " ", tab and ideographic space, newline and no-break space
BlankLookupBodies ==
    {[other |-> <<97>>], [word |-> <<>>], [word |-> <<32>>],
     [word |-> <<9, 12288>>], [word |-> <<10, 160, 32>>]}

\* C24: a lookup whose word is missing, empty or only whitespace is answered
\* 400 with "請輸入要查詢的單詞"; the provider and save_word_record are not
\* called and the word records are the same as before, whatever the provider
\* or the store would have done.
C24_BlankWordRejected ==
    /\ \A data \in BlankLookupBodies, outcome \in ProviderOutcomes,
          fail \in BOOLEAN :
           LET r == lookup_word(records, users, session,
                                RequestField(data, "word"), outcome, now,
                                fail)
           IN  /\ r.status = 400
               /\ r.body = [error |-> MsgEnterWord]
               /\ r.calls = <<>>
               /\ r.rows = records
               /\ ~r.ok
    /\ (ret.op = "lookup" /\ ret.val.status = 400) =>
           /\ ret.val.body = [error |-> MsgEnterWord]
           /\ calls = <<>>

C24_Witness ==
    /\ ret.op = "lookup"
    /\ ret.val.status = 400
    /\ calls = <<>>
    /\ Len(records) > 0
    /\ session # NULL

\* bodies posted to /register with a required field missing, empty or blank:
\* no username, an empty username, a blank email, no password, an empty
\* password, a password of six spaces
MissingFieldBodies ==
    {[email |-> RawE1, password |-> RawSecret],
     [username |-> <<>>, email |-> RawE1, password |-> RawSecret],
     [username |-> RawU1, email |-> <<32>>, password |-> RawSecret],
     [username |-> RawU1, email |-> RawE1],
     [username |-> RawU1, email |-> RawE1, password |-> <<>>],
     [username |-> RawU1, email |-> RawE1,
      password |-> <<32, 32, 32, 32, 32, 32>>]}

\* bodies whose stripped password has 1 to 5 characters: "abc", "12345 "
\* (six characters as sent), " a "
ShortPasswordBodies ==
    {[username |-> RawU1, email |-> RawE1, password |-> RawShort],
     [username |-> RawX, email |-> RawX,
      password |-> <<49, 50, 51, 52, 53, 32>>],
     [username |-> RawU1, email |-> RawE1, password |-> <<32, 97, 32>>]}

RegisterOf(data, fault) ==
    register(users, RequestField(data, "username"),
             RequestField(data, "email"), RequestField(data, "password"),
             RequestField(data, "display_name"), now, fault)

\* C25: a registration with username, email or password missing or empty
\* after stripping is answered 400 "請填寫所有必填欄位", one whose stripped
\* password has fewer than 6 characters 400 "密碼長度至少6個字符"; in both cases
\* create_user is not called and the users are the same as before; an empty
\* password gets the missing-field message, and a 6-character password
\* passes both checks.
C25_RegistrationValidatedFirst ==
    /\ \A data \in MissingFieldBodies, fault \in Faults :
           LET r == RegisterOf(data, fault)
           IN  /\ r.status = 400
               /\ r.body = [error |-> MsgFillAll]
               /\ r.calls = <<>>
               /\ r.rows = users
    /\ \A data \in ShortPasswordBodies, fault \in Faults :
           LET r == RegisterOf(data, fault)
           IN  /\ r.status = 400
               /\ r.body = [error |-> MsgPasswordShort]
               /\ r.calls = <<>>
               /\ r.rows = users
    /\ \A fault \in Faults :
           RegisterOf([username |-> RawU1, email |-> RawE1,
                       password |-> RawSecret], fault).calls # <<>>
    /\ (ret.op = "register" /\ calls = <<>>) =>
           /\ ret.val.status = 400
           /\ ret.val.body \in {[error |-> MsgFillAll],
                                 [error |-> MsgPasswordShort]}

C25_Witness ==
    /\ ret.op = "register"
    /\ ret.val.status = 400
    /\ ret.val.body = [error |-> MsgFillAll]
    /\ calls = <<>>
    /\ Len(users) > 0

\* C22: no request changes the user reference of an existing word record,
\* and none removes or renumbers one; a lookup by a logged-in user leaves
\* every anonymous row as it was (user reference, definition, query_times)
\* and, when it is saved, creates the user's own row with query_times 1 or
\* adds 1 to the user's own row.
C22_UserReferenceFixed ==
    [][/\ Len(records') >= Len(records)
       /\ \A i \in 1..Len(records) :
              /\ records'[i].id = records[i].id
              /\ records'[i].user_id = records[i].user_id
       /\ CurrentUserId(users, session) # NULL =>
              \A i \in 1..Len(records) :
                  records[i].user_id = NULL => records'[i] = records[i]
       /\ (ret'.op = "lookup" /\ saved' # saved
              /\ CurrentUserId(users, session) # NULL) =>
              \E i \in 1..Len(records') :
                  /\ RowKey(records'[i])
                         = Key(ret'.val.body.word, ret'.val.body.language,
                               CurrentUserId(users, session))
                  /\ records'[i].definition = ret'.val.body.definition
                  /\ IF i > Len(records) THEN records'[i].query_times = 1
                     ELSE records'[i].query_times
                              = records[i].query_times + 1]_vars

\* a logged-in user has looked up a word that has an anonymous record: both
\* rows exist
C22_Witness ==
    /\ ret.op = "lookup"
    /\ ret.val.status = 200
    /\ CurrentUserId(users, session) # NULL
    /\ \E i, j \in 1..Len(records) :
           /\ records[i].user_id = NULL
           /\ records[j].user_id = CurrentUserId(users, session)
           /\ records[i].word = records[j].word
           /\ records[j].word = ret.val.body.word
           /\ records[i].id < records[j].id

\* the word records of the identity bound to the client's session
RecordsOfSession == {i \in 1..Len(records) : records[i].user_id = session}

C30_LookupRecordsWellFormed ==
    /\ \A i \in 1..Len(records) :
           /\ records[i].word # <<>>
           /\ ~IsSpace(records[i].word[1])
           /\ ~IsSpace(records[i].word[Len(records[i].word)])
           /\ records[i].language = detect_language(records[i].word)
           /\ ~StartsWith(records[i].definition, ErrorMarker)
    /\ \A i, j \in 1..Len(records) :
           (records[i].word = records[j].word
               /\ records[i].user_id = records[j].user_id) =>
               records[i].language = records[j].language

\* both words have been looked up, sent with whitespace around them: the
\* Latin one is stored as english, the one with a Chinese character as
\* chinese
C30_Witness ==
    /\ ret.op = "lookup"
    /\ Len(records) = 2
    /\ \E i, j \in 1..2 :
           /\ records[i].word = <<97>>
           /\ records[i].language = "english"
           /\ records[j].word = <<97, 20013>>
           /\ records[j].language = "chinese"

\* C29: k overlapping save_word_record calls on one triple that all return
\* True add exactly k to the row's query_times: whenever no call is under
\* way, the one row of a triple counts every successful save of the triple.
C29_NoIncrementLost ==
    (\A p \in Workers : pc[p] = "idle") =>
        \A key \in DOMAIN saved :
            \A i \in RowsWithKey(records, key) :
                Cardinality(RowsWithKey(records, key)) = 1 =>
                    records[i].query_times = saved[key].n

\* C21: the life of a triple is absent, present(1), present(n+1): no step
\* removes a row or changes its triple, a new row starts with query_times 1,
\* and the query_times of a row is at least 1 and never goes down.
C21_TripleLifecycle ==
    [][/\ Len(records') >= Len(records)
       /\ \A i \in 1..Len(records') :
              /\ records'[i].query_times >= 1
              /\ IF i <= Len(records)
                 THEN /\ RowKey(records'[i]) = RowKey(records[i])
                      /\ records'[i].query_times >= records[i].query_times
                 ELSE records'[i].query_times = 1]_vars

====
